---------------------------- MODULE Spec2Model ----------------------------
(***************************************************************************)
(* A model of CongApp.py: the Semantic Scholar collaborator functions, the *)
(* anchor-based ranking call find_top_papers_for_paper, the validity       *)
(* filter is_valid_paper and the two command-line "fetch more" loops.      *)
(*                                                                         *)
(* Conventions.                                                            *)
(*  - A Python dict holding a paper is a record; an absent or null field   *)
(*    is the value the code's `x.get(k) or default` gives it (year 0,      *)
(*    citationCount 0, paperId NoId, title the empty string).              *)
(*  - A string is a sequence of one-character strings.                     *)
(*  - A float is an integer in hundredths (1.0 is 100); a quotient of two  *)
(*    floats is kept exact as a pair [num, den].                           *)
(*  - The text similarity of a candidate to the anchor is computed by an   *)
(*    external library from the candidate's text; the field `sim` of a     *)
(*    record stands for that value (in hundredths).                        *)
(***************************************************************************)
EXTENDS Integers, Sequences, FiniteSets, TLC

VARIABLES
    \* ---- one call of find_top_papers_for_paper ----
    pc,            \* position in the call
    paper,         \* the anchor paper (argument)
    min_year,      \* argument
    max_similar,   \* argument
    top_k,         \* argument
    refs,          \* list returned by get_paper_references
    cits,          \* list returned by get_paper_citations
    recs,          \* list returned by get_recommendations_with_abstract
    seeds,         \* value returned by search_top_papers: [none, data]
    searchCalls,   \* number of calls of search_top_papers made by the call
    searchLimit,   \* the k passed to search_top_papers
    candidates,    \* the dict `candidates`, in insertion order
    features,      \* raw similarity / recency / citeScore per candidate
    cand_list,     \* cand_list after normalisation, scoring and sort
    result,        \* the list returned
    outcome,       \* "running", "returned" or "raised"
    error,         \* the exception raised, "" when none
    \* ---- is_valid_paper as a pure function ----
    vpaper,        \* the record given to is_valid_paper
    vresult,       \* "none" before the call, then "True" or "False"
    \* ---- the command-line loops ----
    mode,          \* "topic", "related" or "idle"
    cli_pc,        \* "loop", "emit", "done" or "crashed"
    exclude_ids,   \* the --exclude-ids that name papers of the model
    exclude_other, \* how many further --exclude-ids there are
    fetch_count,   \* the loop's fetch_count
    fetches,       \* the fetch_count of every fetch attempt made, in order
    valid_papers,  \* the loop's valid_papers
    accumulated,   \* related mode: accumulated
    seen_ids,      \* related mode: seen_ids
    emitted,       \* the "papers" of the JSON output
    attempts,      \* related mode: calls of find_top_papers_for_paper made
    related_papers,\* related mode: the papers the last call returned
    \* ---- one call of get_paper_references / get_paper_citations ----
    fetcher,       \* "references", "citations" or "idle"
    fetch_limit,   \* the argument `limit`
    fetched,       \* the list refs / cits the loop fills
    requests,      \* number of page requests made
    fetch_pages,   \* the responses to them, in order
    grew,          \* records added by each iteration that did not exit
    fetch_pc,      \* "loop", "return" or "done"
    fetch_ret      \* the list returned

rankVars == <<pc, paper, min_year, max_similar, top_k, refs, cits, recs, seeds,
              searchCalls, searchLimit, candidates, features, cand_list, result,
              outcome, error>>
validVars == <<vpaper, vresult>>
cliVars == <<mode, cli_pc, exclude_ids, exclude_other, fetch_count, fetches,
             valid_papers, accumulated, seen_ids, emitted, attempts,
             related_papers>>
fetchVars == <<fetcher, fetch_limit, fetched, requests, fetch_pages, grew,
               fetch_pc, fetch_ret>>
vars == <<rankVars, validVars, cliVars, fetchVars>>

-----------------------------------------------------------------------------
(* Bounds of the model                                                      *)

\* the most records the one-hop collaborators deliver to one ranking call
MaxFetched == 3
\* max_references and max_citations of the modelled ranking call
MaxNeighbors == 2
\* the most records one search response holds in the ranking call
MaxSeeds == 2
\* top_k ranges over 0..MaxTopK, and the command line's first fetch_count
MaxTopK == 2
\* the longest title given to is_valid_paper as a pure function
MaxTitleLen == 6
\* the most records one topic search response holds
MaxTopicResults == 4
\* the most records the collaborators deliver to one related-paper attempt
MaxRelFetched == 2

-----------------------------------------------------------------------------
(* Python built-ins                                                         *)

Min(a, b) == IF a < b THEN a ELSE b
Max(a, b) == IF a > b THEN a ELSE b

\* s[:n] for n >= 0
Take(s, n) == SubSeq(s, 1, Min(n, Len(s)))

RECURSIVE SeqMax(_)
SeqMax(s) == IF Len(s) = 1 THEN s[1] ELSE Max(s[1], SeqMax(Tail(s)))

RECURSIVE SeqMin(_)
SeqMin(s) == IF Len(s) = 1 THEN s[1] ELSE Min(s[1], SeqMin(Tail(s)))

-----------------------------------------------------------------------------
(* Paper records                                                            *)

NoId == "NoId"
NoYear == 0

Paper(id, title, year, cites, sim) ==
    [paperId |-> id, title |-> title, year |-> year,
     citationCount |-> cites, sim |-> sim]

\* the dict {} that `item.get("citedPaper") or {}` gives for a null paper
EmptyPaper == Paper(NoId, <<>>, NoYear, 0, 0)

TitleOk == <<"d", "i", " ", "d", "o">>
TitleUrl == <<"d", "o", "i", ":", " ", "d">>

\* The records the collaborators answer with in the ranking call: two
\* versions of paper A and of paper B that differ in year, a paper whose
\* year is min_year itself and whose citation count is negative, the
\* anchor itself, and a record with no identifier.  A-2023 and B-2023 tie on
\* every feature; P shares only its year with them.
Papers ==
    { Paper("A", TitleOk, 2023, 10, 80),
      Paper("A", TitleOk, 1999, 10, 80),
      Paper("B", TitleOk, 2023, 10, 80),
      Paper("B", TitleOk, NoYear, 0, 20),
      Paper("C", TitleOk, 2010, -1, 50),
      Paper("P", TitleOk, 2023, 1, 100),
      EmptyPaper }

ListsUpTo(S, n) == UNION { [1..k -> S] : k \in 0..n }

-----------------------------------------------------------------------------
(* HTTP responses of the remote service                                     *)

\* requests.get / requests.post raised (network error, timeout)
Exc == [kind |-> "exception", status |-> 0, items |-> <<>>, next |-> FALSE]

\* a response with a status code, the payload's list and whether the
\* payload carries a `next` offset
Http(status, items, next) ==
    [kind |-> "http", status |-> status, items |-> items, next |-> next]

\* 200, a success status that is not 200, a client error, a server error
Statuses == {200, 202, 404, 500}

\* r.raise_for_status() raises for the 4xx and 5xx statuses only
RaisesForStatus(status) == status >= 400 /\ status < 600

\* Python's None as the value of a call that falls off its end
PyNone == [none |-> TRUE, data |-> <<>>]
PyList(l) == [none |-> FALSE, data |-> l]

-----------------------------------------------------------------------------
(* The collaborator functions                                               *)

\* search_top_papers: the value returned for one response
search_top_papers(r) ==
    IF r.kind = "exception" THEN PyList(<<>>)
    ELSE IF r.status = 200 THEN PyList(r.items)
    ELSE IF RaisesForStatus(r.status) THEN PyList(<<>>)
    ELSE PyNone

\* get_recommendations: the value returned for one response
get_recommendations(r) ==
    IF r.kind = "exception" THEN PyList(<<>>)
    ELSE IF r.status = 200 THEN PyList(r.items)
    ELSE PyList(<<>>)

\* get_recommendations_with_abstract: `result if result else []`
get_recommendations_with_abstract(r) ==
    LET res == get_recommendations(r)
    IN  IF res.none \/ res.data = <<>> THEN PyList(<<>>) ELSE res

\* The while loop of get_paper_references / get_paper_citations over the
\* page responses the service gives, one per request; acc is refs / cits.
\* An exception leaves through `except` and the function returns [].
RECURSIVE PagedFetch(_, _, _)
PagedFetch(acc, pages, limit) ==
    IF Len(acc) >= limit \/ pages = <<>> THEN acc
    ELSE LET r == Head(pages)
         IN  IF r.kind = "exception" THEN <<>>
             ELSE IF r.status # 200 THEN acc
             ELSE IF r.items = <<>> THEN acc
             ELSE LET acc2 == Take(acc \o r.items, limit)
                  IN  IF ~r.next THEN acc2
                      ELSE PagedFetch(acc2, Tail(pages), limit)

\* get_paper_references: `return refs[:limit]` when refs is not empty; else
\* r.raise_for_status() raises or not, and either way [] is returned
get_paper_references(pages, limit) ==
    LET got == PagedFetch(<<>>, pages, limit)
    IN  IF got # <<>> THEN PyList(Take(got, limit)) ELSE PyList(<<>>)

\* get_paper_citations: the same code over citingPaper
get_paper_citations(pages, limit) ==
    LET got == PagedFetch(<<>>, pages, limit)
    IN  IF got # <<>> THEN PyList(Take(got, limit)) ELSE PyList(<<>>)

\* The page sequences the service answers a neighbour fetch with, holding
\* at most n records of S: a failure, one page, or two pages
NeighborPages(S, n) ==
    {<<Exc>>}
    \cup { <<Http(s, <<>>, FALSE)>> : s \in Statuses }
    \cup { <<Http(200, l, FALSE)>> : l \in ListsUpTo(S, n) }
    \cup { <<Http(200, <<a>>, TRUE), p>> :
             a \in IF n < 1 THEN {} ELSE S,
             p \in {Exc, Http(500, <<>>, FALSE)}
                   \cup { Http(200, <<b>>, FALSE) :
                            b \in IF n < 2 THEN {} ELSE S } }

\* The responses to one search or recommendation request, at most n records
\* of S
SingleResponses(S, n) ==
    {Exc}
    \cup { Http(s, <<>>, FALSE) : s \in Statuses }
    \cup { Http(200, l, FALSE) : l \in ListsUpTo(S, n) }

-----------------------------------------------------------------------------
(* find_top_papers_for_paper: gathering the candidates                      *)

\* the defaults of the signature
DefaultMinYear == 2010
W_SIM == 55
W_REC == 20
W_CIT == 25

\* time.localtime().tm_year
CurrentYear == 2026

Ids(pool) == { pool[i].paperId : i \in 1..Len(pool) }

\* `if rid not in candidates: candidates[rid] = dict(ref)`, overwriting
AddCandidateOverwrite(pool, rec) ==
    IF rec.paperId \in Ids(pool)
    THEN [i \in 1..Len(pool) |->
            IF pool[i].paperId = rec.paperId THEN rec ELSE pool[i]]
    ELSE Append(pool, rec)

\* `if rid not in candidates: candidates[rid] = dict(ref)`
AddCandidate(pool, rec) ==
    IF rec.paperId \in Ids(pool) THEN pool ELSE Append(pool, rec)

\* `y = ref.get("year") or 0` / `if y and y < min_year: continue`
TooOld(rec, minYear) == rec.year # NoYear /\ rec.year < minYear

\* one iteration of a neighbour loop (references, citations, similar)
Admit(pool, rec, minYear) ==
    IF rec.paperId = NoId THEN pool
    ELSE IF TooOld(rec, minYear) THEN pool
    ELSE AddCandidate(pool, rec)

\* a whole neighbour loop
RECURSIVE ScanNeighbors(_, _, _)
ScanNeighbors(pool, lst, minYear) ==
    IF lst = <<>> THEN pool
    ELSE ScanNeighbors(Admit(pool, Head(lst), minYear), Tail(lst), minYear)

\* one iteration of the fallback loop over the search results
AdmitSeed(pool, rec, paperId) ==
    IF rec.paperId # NoId /\ rec.paperId # paperId
    THEN AddCandidate(pool, rec)
    ELSE pool

\* the fallback loop
RECURSIVE ScanSeeds(_, _, _)
ScanSeeds(pool, lst, paperId) ==
    IF lst = <<>> THEN pool
    ELSE ScanSeeds(AdmitSeed(pool, Head(lst), paperId), Tail(lst), paperId)

\* `fallback_k = max(top_k * 5, 40)`
FallbackK(topK) == Max(topK * 5, 40)

\* whether the fallback branch is taken: `if not candidates`
NeedsFallback(pool) == pool = <<>>

-----------------------------------------------------------------------------
(* find_top_papers_for_paper: features, normalisation, score, sort          *)

\* math.exp(-age / 3.0) in hundredths, for age >= 0
ExpDecay3(age) ==
    LET t == <<100, 72, 51, 37, 26, 19, 14, 10, 7, 5, 4, 3, 2, 1, 1, 1>>
    IN  IF age + 1 <= Len(t) THEN t[age + 1] ELSE 0

\* math.log(n) in hundredths, for 1 <= n <= 12
Log100(n) ==
    <<0, 69, 110, 139, 161, 179, 195, 208, 220, 230, 240, 248>>[n]

\* math.log(x) raises ValueError (math domain error) for x <= 0
LogDomainError(x) == x <= 0

\* the recency loop
Recency(c) ==
    IF c.year # NoYear /\ c.year > 0
    THEN ExpDecay3(CurrentYear - c.year)
    ELSE 0

\* `cites = c.get("citationCount") or 0`, the argument of math.log
CiteArg(c) == 1 + c.citationCount

\* the raw similarity, recency and citeScore attached to a candidate
RawFeatures(c) ==
    [similarity |-> c.sim, recency |-> Recency(c),
     citeScore |-> Log100(CiteArg(c))]

\* _norm without the `if mx != mn` guard
NormUnguarded(lst) ==
    IF lst = <<>> THEN lst
    ELSE LET mx == SeqMax(lst)
             mn == SeqMin(lst)
         IN  [i \in 1..Len(lst) |-> [num |-> lst[i] - mn, den |-> mx - mn]]

\* _norm: each value is the quotient num / den
Norm(lst) ==
    IF lst = <<>> THEN lst
    ELSE LET mx == SeqMax(lst)
             mn == SeqMin(lst)
             rng == IF mx # mn THEN mx - mn ELSE 100
         IN  [i \in 1..Len(lst) |-> [num |-> lst[i] - mn, den |-> rng]]

\* w_sim * similarity + w_rec * recency + w_cit * citeScore as one quotient
\* (the weights are in hundredths)
WeightedScore(s, r, c) ==
    [num |-> W_SIM * s.num * r.den * c.den
             + W_REC * r.num * s.den * c.den
             + W_CIT * c.num * s.den * r.den,
     den |-> 100 * s.den * r.den * c.den]

\* the loop that writes the normalised features and the score back
ScoreAll(pool, feats) ==
    LET sims == Norm([i \in 1..Len(feats) |-> feats[i].similarity])
        rcs  == Norm([i \in 1..Len(feats) |-> feats[i].recency])
        cts  == Norm([i \in 1..Len(feats) |-> feats[i].citeScore])
    IN  [i \in 1..Len(pool) |->
            [paper |-> pool[i],
             similarity |-> sims[i], recency |-> rcs[i], citeScore |-> cts[i],
             score |-> WeightedScore(sims[i], rcs[i], cts[i])]]

\* the sort key x["score"]; every score of one pool has the same
\* denominator, so the numerators order the scores
Key(c) == c.score.num

\* insertion of x behind every element whose key is >= its own
RECURSIVE InsertDesc(_, _)
InsertDesc(sorted, x) ==
    IF sorted = <<>> THEN <<x>>
    ELSE IF Key(Head(sorted)) >= Key(x)
         THEN <<Head(sorted)>> \o InsertDesc(Tail(sorted), x)
         ELSE <<x>> \o sorted

\* insertion of x in front of the elements whose key equals its own
RECURSIVE InsertDescFront(_, _)
InsertDescFront(sorted, x) ==
    IF sorted = <<>> THEN <<x>>
    ELSE IF Key(Head(sorted)) > Key(x)
         THEN <<Head(sorted)>> \o InsertDescFront(Tail(sorted), x)
         ELSE <<x>> \o sorted

RECURSIVE SortInto(_, _)
SortInto(sorted, rest) ==
    IF rest = <<>> THEN sorted
    ELSE SortInto(InsertDesc(sorted, Head(rest)), Tail(rest))

RECURSIVE SortIntoFront(_, _)
SortIntoFront(sorted, rest) ==
    IF rest = <<>> THEN sorted
    ELSE SortIntoFront(InsertDescFront(sorted, Head(rest)), Tail(rest))

\* a descending sort that reverses the order of equal keys
SortDescTiesReversed(lst) == SortIntoFront(<<>>, lst)

\* cand_list.sort(key=lambda x: x["score"], reverse=True): stable
SortDesc(lst) == SortInto(<<>>, lst)

-----------------------------------------------------------------------------
(* The states of the parts of the program a specification leaves alone      *)

DefaultMaxSimilar == 20

\* the first top_k the command line passes: `fetch_count = ... else 10`
FirstFetchCount == 10

RankIdle ==
    /\ pc = "idle"
    /\ paper = [paperId |-> NoId]
    /\ min_year = DefaultMinYear
    /\ max_similar = 0
    /\ top_k = 0
    /\ refs = <<>> /\ cits = <<>> /\ recs = <<>>
    /\ seeds = PyList(<<>>)
    /\ searchCalls = 0 /\ searchLimit = 0
    /\ candidates = <<>> /\ features = <<>> /\ cand_list = <<>>
    /\ result = <<>>
    /\ outcome = "running" /\ error = ""

ValidIdle == vpaper = EmptyPaper /\ vresult = "none"

CliIdle ==
    /\ mode = "idle" /\ cli_pc = "done"
    /\ exclude_ids = {} /\ exclude_other = 0
    /\ fetch_count = 0 /\ fetches = <<>>
    /\ valid_papers = <<>> /\ accumulated = <<>> /\ seen_ids = {}
    /\ emitted = <<>>
    /\ attempts = 0
    /\ related_papers = <<>>

FetchIdle ==
    /\ fetcher = "idle" /\ fetch_limit = 0
    /\ fetched = <<>> /\ requests = 0 /\ fetch_pages = <<>> /\ grew = <<>>
    /\ fetch_pc = "done" /\ fetch_ret = <<>>

-----------------------------------------------------------------------------
(* One call of find_top_papers_for_paper, a step per collaborator call      *)

\* the call's arguments: an anchor with or without an identifier, the
\* default min_year, max_similar 0 (as the command line passes) or the
\* default, and a small top_k or the command line's first one
Init ==
    /\ pc = "entry"
    /\ paper \in {[paperId |-> "P"], [paperId |-> NoId]}
    /\ min_year = DefaultMinYear
    /\ max_similar \in {0, DefaultMaxSimilar}
    /\ top_k \in (0..MaxTopK) \cup {FirstFetchCount}
    /\ refs = <<>> /\ cits = <<>> /\ recs = <<>>
    /\ seeds = PyList(<<>>)
    /\ searchCalls = 0 /\ searchLimit = 0
    /\ candidates = <<>> /\ features = <<>> /\ cand_list = <<>>
    /\ result = <<>>
    /\ outcome = "running" /\ error = ""
    /\ ValidIdle
    /\ CliIdle
    /\ FetchIdle

\* the call returns lst
Return(lst) ==
    /\ result' = lst
    /\ outcome' = "returned"
    /\ error' = ""
    /\ pc' = "done"

\* the call raises exception e
Raise(e) ==
    /\ result' = <<>>
    /\ outcome' = "raised"
    /\ error' = e
    /\ pc' = "done"

\* `if not paper_id: return []`
Entry ==
    /\ pc = "entry"
    /\ IF paper.paperId = NoId
       THEN Return(<<>>)
       ELSE pc' = "refs" /\ UNCHANGED <<result, outcome, error>>
    /\ UNCHANGED <<paper, min_year, max_similar, top_k, refs, cits, recs, seeds,
                   searchCalls, searchLimit, candidates, features, cand_list>>

\* the loop over get_paper_references(paper_id, limit=max_references)
FetchReferences ==
    /\ pc = "refs"
    /\ \E pages \in NeighborPages(Papers, MaxFetched) :
         LET got == get_paper_references(pages, MaxNeighbors).data
         IN  /\ refs' = got
             /\ candidates' = ScanNeighbors(candidates, got, min_year)
    /\ pc' = "cits"
    /\ UNCHANGED <<paper, min_year, max_similar, top_k, cits, recs, seeds,
                   searchCalls, searchLimit, features, cand_list, result,
                   outcome, error>>

\* the loop over get_paper_citations(paper_id, limit=max_citations)
FetchCitations ==
    /\ pc = "cits"
    /\ \E pages \in NeighborPages(Papers, MaxFetched - Len(refs)) :
         LET got == get_paper_citations(pages, MaxNeighbors).data
         IN  /\ cits' = got
             /\ candidates' = ScanNeighbors(candidates, got, min_year)
    /\ pc' = "similar"
    /\ UNCHANGED <<paper, min_year, max_similar, top_k, refs, recs, seeds,
                   searchCalls, searchLimit, features, cand_list, result,
                   outcome, error>>

\* `if max_similar and max_similar > 0:` the loop over the recommendations
FetchSimilar ==
    /\ pc = "similar"
    /\ IF max_similar > 0
       THEN \E r \in SingleResponses(Papers,
                                      MaxFetched - Len(refs) - Len(cits)) :
              LET got == get_recommendations_with_abstract(r).data
              IN  /\ recs' = got
                  /\ candidates' = ScanNeighbors(candidates, got, min_year)
       ELSE UNCHANGED <<recs, candidates>>
    /\ pc' = "pool"
    /\ UNCHANGED <<paper, min_year, max_similar, top_k, refs, cits, seeds,
                   searchCalls, searchLimit, features, cand_list, result,
                   outcome, error>>

\* `if not candidates:` the keyword-search fallback; len(seeds) raises
\* TypeError when search_top_papers returned None
Fallback ==
    /\ pc = "pool"
    /\ searchCalls = 0
    /\ NeedsFallback(candidates)
    /\ \E r \in SingleResponses(Papers, MaxSeeds) :
         LET got == search_top_papers(r)
             pool == ScanSeeds(candidates, got.data, paper.paperId)
         IN  /\ seeds' = got
             /\ searchCalls' = searchCalls + 1
             /\ searchLimit' = FallbackK(top_k)
             /\ IF got.none
                THEN Raise("TypeError") /\ UNCHANGED candidates
                ELSE /\ candidates' = pool
                     /\ IF pool = <<>>
                        THEN Return(<<>>)
                        ELSE UNCHANGED <<pc, result, outcome, error>>
    /\ UNCHANGED <<paper, min_year, max_similar, top_k, refs, cits, recs,
                   features, cand_list>>

\* similarity, recency and citeScore of every candidate; math.log raises
\* ValueError on an argument <= 0
Score ==
    /\ pc = "pool"
    /\ candidates # <<>>
    /\ IF \E i \in 1..Len(candidates) : LogDomainError(CiteArg(candidates[i]))
       THEN Raise("ValueError") /\ UNCHANGED features
       ELSE /\ features' = [i \in 1..Len(candidates) |->
                               RawFeatures(candidates[i])]
            /\ pc' = "rank"
            /\ UNCHANGED <<result, outcome, error>>
    /\ UNCHANGED <<paper, min_year, max_similar, top_k, refs, cits, recs, seeds,
                   searchCalls, searchLimit, candidates, cand_list>>

\* normalise, score, sort and `return cand_list[:top_k]`
Rank ==
    /\ pc = "rank"
    /\ cand_list' = SortDesc(ScoreAll(candidates, features))
    /\ Return(Take(cand_list', top_k))
    /\ UNCHANGED <<paper, min_year, max_similar, top_k, refs, cits, recs, seeds,
                   searchCalls, searchLimit, candidates, features>>

Next ==
    \/ (Entry /\ UNCHANGED <<validVars, cliVars, fetchVars>>)
    \/ (FetchReferences /\ UNCHANGED <<validVars, cliVars, fetchVars>>)
    \/ (FetchCitations /\ UNCHANGED <<validVars, cliVars, fetchVars>>)
    \/ (FetchSimilar /\ UNCHANGED <<validVars, cliVars, fetchVars>>)
    \/ (Fallback /\ UNCHANGED <<validVars, cliVars, fetchVars>>)
    \/ (Score /\ UNCHANGED <<validVars, cliVars, fetchVars>>)
    \/ (Rank /\ UNCHANGED <<validVars, cliVars, fetchVars>>)

Spec == Init /\ [][Next]_vars

-----------------------------------------------------------------------------
(* Properties of the ranking call                                           *)

\* the records of the three neighbour lists in the order they are scanned
Scanned == refs \o cits \o recs

\* the scanned records that carry an identifier and are not older than
\* min_year (a record without a year counts as not older)
ScannedInYear ==
    SelectSeq(Scanned, LAMBDA r : r.paperId # NoId
                                  /\ (r.year = NoYear \/ r.year >= min_year))

\* the first record of lst that carries identifier id
FirstWithId(lst, id) ==
    lst[CHOOSE i \in 1..Len(lst) :
          /\ lst[i].paperId = id
          /\ \A j \in 1..(i - 1) : lst[j].paperId # id]

IdsOf(lst) == { lst[i].paperId : i \in 1..Len(lst) }

UniqueIds(lst) ==
    \A i, j \in 1..Len(lst) : i # j => lst[i].paperId # lst[j].paperId

\* C1 as stated: the pool holds one entry per identifier, and the entry is
\* the first record with that identifier met in references, citations,
\* recommendations (whether or not the year filter skipped that record).
C1_FirstEncountered ==
    /\ UniqueIds(candidates)
    /\ searchCalls = 0 =>
         \A i \in 1..Len(candidates) :
            candidates[i] = FirstWithId(Scanned, candidates[i].paperId)

\* C1 amended: the pool holds one entry per identifier; when the neighbour
\* scans fill it, it holds exactly the identifiers that have a record within
\* the year filter, each with the first such record in the order references,
\* citations, recommendations, and a later record never replaces it.
C1_FirstAdmitted ==
    /\ UniqueIds(candidates)
    /\ searchCalls = 0 =>
         /\ IdsOf(candidates) = IdsOf(ScannedInYear)
         /\ \A i \in 1..Len(candidates) :
               candidates[i] = FirstWithId(ScannedInYear, candidates[i].paperId)

\* C1 witness: the scans are over, and two different records of one
\* identifier, both within the year filter, came from two different lists
C1_Witness ==
    /\ pc = "pool"
    /\ \E i \in 1..Len(refs), j \in 1..Len(cits) :
          /\ refs[i].paperId = cits[j].paperId
          /\ refs[i].paperId # NoId
          /\ refs[i] # cits[j]
          /\ refs[i].year >= min_year
          /\ cits[j].year = NoYear
          /\ refs[i] \in { candidates[k] : k \in 1..Len(candidates) }

\* C2: no candidate of the pool has a known year below min_year, whichever
\* path filled the pool, and a scanned record with an identifier and no year
\* is in the pool.
C2_YearFilter ==
    /\ \A i \in 1..Len(candidates) :
          candidates[i].year = NoYear \/ candidates[i].year >= min_year
    /\ \A i \in 1..Len(Scanned) :
          (Scanned[i].paperId # NoId /\ Scanned[i].year = NoYear)
             => Scanned[i].paperId \in IdsOf(candidates)

\* position of the candidate with identifier id in the pool (discovery order)
PoolPos(id) == CHOOSE i \in 1..Len(candidates) : candidates[i].paperId = id

\* a is ranked before b: a higher score, or the same score and found
\* earlier (the two scores are quotients over the same denominator)
RankedBefore(a, b) ==
    /\ a.score.den = b.score.den
    /\ a.score.den > 0
    /\ \/ a.score.num > b.score.num
       \/ /\ a.score.num = b.score.num
          /\ PoolPos(a.paper.paperId) < PoolPos(b.paper.paperId)

\* C3: a call that returns gives the first min(top_k, poolSize) elements of
\* the stable descending sort of the pool by score.
C3_RankingOutput ==
    (pc = "done" /\ outcome = "returned") =>
       /\ Len(result) = Min(top_k, Len(candidates))
       /\ \/ candidates = <<>>
          \/ /\ Len(cand_list) = Len(candidates)
             /\ { cand_list[i].paper : i \in 1..Len(cand_list) }
                  = { candidates[i] : i \in 1..Len(candidates) }
             /\ \A i, j \in 1..Len(cand_list) :
                   i < j => RankedBefore(cand_list[i], cand_list[j])
             /\ \A i \in 1..Len(result) : result[i] = cand_list[i]

\* C3 witness: a returned ranking of three candidates cut to two, with two
\* candidates of equal score and a third of another score
C3_Witness ==
    /\ pc = "done" /\ outcome = "returned"
    /\ Len(candidates) = 3 /\ Len(result) = 2
    /\ \E i, j, k \in 1..3 :
          /\ i # j
          /\ cand_list[i].score.num = cand_list[j].score.num
          /\ cand_list[k].score.num # cand_list[i].score.num

FeatureNames == {"similarity", "recency", "citeScore"}

\* the raw values of feature f over the pool
RawValues(f) == { features[i][f] : i \in 1..Len(features) }

Lowest(S) == CHOOSE x \in S : \A y \in S : x <= y
Highest(S) == CHOOSE x \in S : \A y \in S : x >= y

\* C4: once a pool is normalised, every normalised feature is a quotient in
\* [0,1] with a non-zero denominator, it is the min-max rescaling of the raw
\* value of the same candidate (same length, same order), it is 0 when all
\* raw values are equal, and the score of a one-candidate pool is 0.
C4_Normalization ==
    (pc = "done" /\ cand_list # <<>>) =>
       /\ Len(cand_list) = Len(features)
       /\ \A k \in 1..Len(cand_list) : \A f \in FeatureNames :
             LET q == cand_list[k][f]
                 raw == features[PoolPos(cand_list[k].paper.paperId)][f]
                 lo == Lowest(RawValues(f))
                 hi == Highest(RawValues(f))
             IN  /\ q.den > 0
                 /\ 0 <= q.num /\ q.num <= q.den
                 /\ hi = lo => q.num = 0
                 /\ hi # lo => q.num * (hi - lo) = (raw - lo) * q.den
       /\ Len(cand_list) = 1 =>
             cand_list[1].score.num = 0 /\ cand_list[1].score.den > 0

\* C4 witness: a normalised pool of several candidates in which one feature
\* has all raw values equal and another has not
C4_Witness ==
    /\ pc = "done" /\ outcome = "returned"
    /\ Len(cand_list) >= 2
    /\ \E f, g \in FeatureNames :
          /\ Cardinality(RawValues(f)) = 1
          /\ Cardinality(RawValues(g)) > 1
          /\ \E k \in 1..Len(cand_list) : cand_list[k][g].num = cand_list[k][g].den

\* the search results that carry an identifier other than the anchor's
SeedsKept ==
    SelectSeq(seeds.data, LAMBDA r : r.paperId # NoId
                                     /\ r.paperId # paper.paperId)

\* C5: the search is invoked exactly when the neighbour scans leave the pool
\* empty, once, with limit max(top_k*5, 40); the pool then is the first
\* occurrence of every returned record with an identifier other than the
\* anchor's; and if the pool is still empty the call returns [] and does not
\* raise.
C5_Fallback ==
    /\ searchCalls <= 1
    /\ (pc \in {"rank", "done"} /\ paper.paperId # NoId) =>
          (searchCalls = 1 <=> ScannedInYear = <<>>)
    /\ searchCalls = 1 =>
          /\ searchLimit = (IF top_k * 5 > 40 THEN top_k * 5 ELSE 40)
          /\ UniqueIds(candidates)
          /\ IdsOf(candidates) = IdsOf(SeedsKept)
          /\ \A i \in 1..Len(candidates) :
                candidates[i] = FirstWithId(SeedsKept, candidates[i].paperId)
          /\ candidates = <<>> =>
                (pc = "done" /\ outcome = "returned" /\ result = <<>>)

\* The fallback of C5 on every call whose search returned a list
FallbackOnList == seeds.none \/ C5_Fallback

\* C6: every collaborator function returns a list, and the ranking call
\* never raises on what a collaborator returned.
C6_NeverFatal ==
    /\ ~seeds.none
    /\ error # "TypeError"

\* C8: the raw citation feature of every candidate is
\* log(1 + max(citationCount, 0)), and the ranking call does not fail on a
\* negative citation count.
C8_NegativeGuarded ==
    /\ error # "ValueError"
    /\ features # <<>> =>
          \A i \in 1..Len(features) :
             features[i].citeScore
               = Log100(1 + Max(candidates[i].citationCount, 0))

-----------------------------------------------------------------------------
(* is_valid_paper                                                           *)

\* the characters str.strip() and str.split() treat as whitespace
WhiteSpace == {" ", "\t", "\n"}

\* str.lower() on one character of the model's alphabet
LowerChar(c) == IF c = "D" THEN "d" ELSE c

\* title.lower()
Lower(s) == [i \in 1..Len(s) |-> LowerChar(s[i])]

RECURSIVE StripLeft(_)
StripLeft(s) ==
    IF s # <<>> /\ Head(s) \in WhiteSpace THEN StripLeft(Tail(s)) ELSE s

RECURSIVE StripRight(_)
StripRight(s) ==
    IF s # <<>> /\ s[Len(s)] \in WhiteSpace
    THEN StripRight(SubSeq(s, 1, Len(s) - 1))
    ELSE s

\* str.strip()
Strip(s) == StripRight(StripLeft(s))

\* whether s starts with pat
StartsWith(s, pat) ==
    Len(pat) <= Len(s) /\ SubSeq(s, 1, Len(pat)) = pat

\* `pattern in title_lower`
RECURSIVE Contains(_, _)
Contains(s, pat) ==
    IF Len(s) < Len(pat) THEN FALSE
    ELSE StartsWith(s, pat) \/ Contains(Tail(s), pat)

\* str.split(): the words of s, cur being the word read so far
RECURSIVE SplitFrom(_, _)
SplitFrom(s, cur) ==
    IF s = <<>> THEN (IF cur = <<>> THEN <<>> ELSE <<cur>>)
    ELSE IF Head(s) \in WhiteSpace
         THEN (IF cur = <<>> THEN <<>> ELSE <<cur>>) \o SplitFrom(Tail(s), <<>>)
         ELSE SplitFrom(Tail(s), Append(cur, Head(s)))

Split(s) == SplitFrom(s, <<>>)

\* invalid_patterns
invalid_patterns ==
    { <<"d", "o", "i", ":">>,
      <<"h", "t", "t", "p", ":", "/", "/">>,
      <<"h", "t", "t", "p", "s", ":", "/", "/">>,
      <<"w", "w", "w", ".">>,
      <<"g", "i", "t", "h", "u", "b", ".", "c", "o", "m">>,
      <<"a", "r", "x", "i", "v", ".", "o", "r", "g">> }

\* is_valid_paper with the commented-out year test of line 379 switched on
is_valid_paper_with_year(p) ==
    LET title == Strip(p.title)
    IN  IF Len(title) < 5 THEN FALSE
        ELSE IF \E pat \in invalid_patterns : Contains(Lower(title), pat)
             THEN FALSE
        ELSE IF Len(Split(title)) <= 1 THEN FALSE
        ELSE IF p.year = NoYear THEN FALSE
        ELSE TRUE

\* is_valid_paper
is_valid_paper(p) ==
    LET title == Strip(p.title)
    IN  IF Len(title) < 5 THEN FALSE
        ELSE IF \E pat \in invalid_patterns : Contains(Lower(title), pat)
             THEN FALSE
        ELSE IF Len(Split(title)) <= 1 THEN FALSE
        ELSE TRUE

\* the alphabet of the titles given to is_valid_paper: the letters of the
\* marker "doi:", an upper-case letter and the blank
TitleChars == {"d", "D", "o", "i", ":", " "}

\* is_valid_paper applied to one record: any title up to MaxTitleLen
\* characters (the empty one is what paper.get("title", "") gives a record
\* without title), with and without a year
ValidInit ==
    /\ vpaper \in { Paper("A", t, y, 0, 0) :
                      t \in ListsUpTo(TitleChars, MaxTitleLen),
                      y \in {NoYear, 2020} }
    /\ vresult = "none"
    /\ RankIdle
    /\ CliIdle
    /\ FetchIdle

Validate ==
    /\ vresult = "none"
    /\ vresult' = IF is_valid_paper(vpaper) THEN "True" ELSE "False"
    /\ UNCHANGED <<vpaper, rankVars, cliVars, fetchVars>>

ValidNext == Validate

SpecValid == ValidInit /\ [][ValidNext]_vars

\* the number of characters between the first and the last non-blank one
TrimmedLen(t) ==
    LET inked == { i \in 1..Len(t) : t[i] \notin WhiteSpace }
    IN  IF inked = {} THEN 0
        ELSE (CHOOSE i \in inked : \A j \in inked : j <= i)
             - (CHOOSE i \in inked : \A j \in inked : j >= i) + 1

\* whether t holds a marker at some position, letter case ignored
HasMarker(t) ==
    \E pat \in invalid_patterns : \E i \in 1..Len(t) :
       /\ i + Len(pat) - 1 <= Len(t)
       /\ \A k \in 1..Len(pat) :
             t[i + k - 1] = pat[k] \/ (t[i + k - 1] = "D" /\ pat[k] = "d")

\* the number of places where a word starts
WordCount(t) ==
    Cardinality({ i \in 1..Len(t) :
                    /\ t[i] \notin WhiteSpace
                    /\ (i = 1 \/ t[i - 1] \in WhiteSpace) })

\* C9: is_valid_paper returns false exactly when the trimmed title has fewer
\* than 5 characters, or the title holds a marker (case-insensitively), or
\* the title has at most one word; the year plays no part.
C9_LenientFilter ==
    vresult # "none" =>
       (vresult = "False" <=>
           \/ TrimmedLen(vpaper.title) < 5
           \/ HasMarker(vpaper.title)
           \/ WordCount(vpaper.title) <= 1)

\* C9 witness: a record without a year, with a title of several words that
\* is padded with blanks, was accepted
C9_Witness ==
    /\ vresult = "True"
    /\ vpaper.year = NoYear
    /\ Len(vpaper.title) > TrimmedLen(vpaper.title)

-----------------------------------------------------------------------------
(* find_top_papers_for_paper as a function of what its collaborators return *)

\* the lines from the similarity scores to `return cand_list[:top_k]`
RankCandidates(pool, topK) ==
    IF \E i \in 1..Len(pool) : LogDomainError(CiteArg(pool[i]))
    THEN [outcome |-> "raised", error |-> "ValueError", result |-> <<>>]
    ELSE LET feats == [i \in 1..Len(pool) |-> RawFeatures(pool[i])]
         IN  [outcome |-> "returned", error |-> "",
              result |-> Take(SortDesc(ScoreAll(pool, feats)), topK)]

\* the whole call; refsGot, citsGot, recsGot are the lists the neighbour
\* collaborators return and searchGot is what search_top_papers returns
find_top_papers_for_paper(anchor, minYear, maxSimilar, topK, refsGot, citsGot, recsGot, searchGot) ==
    IF anchor.paperId = NoId
    THEN [outcome |-> "returned", error |-> "", result |-> <<>>]
    ELSE LET p1 == ScanNeighbors(<<>>, refsGot, minYear)
             p2 == ScanNeighbors(p1, citsGot, minYear)
             p3 == IF maxSimilar > 0
                   THEN ScanNeighbors(p2, recsGot, minYear)
                   ELSE p2
         IN  IF NeedsFallback(p3)
             THEN IF searchGot.none
                  THEN [outcome |-> "raised", error |-> "TypeError",
                        result |-> <<>>]
                  ELSE LET p4 == ScanSeeds(p3, searchGot.data, anchor.paperId)
                       IN  IF p4 = <<>>
                           THEN [outcome |-> "returned", error |-> "",
                                 result |-> <<>>]
                           ELSE RankCandidates(p4, topK)
             ELSE RankCandidates(p3, topK)

\* The step-by-step call and the function agree on every finished call
CallAgrees ==
    pc = "done" =>
       [outcome |-> outcome, error |-> error, result |-> result]
         = find_top_papers_for_paper(paper, min_year, max_similar, top_k,
                                     refs, cits, recs, seeds)

-----------------------------------------------------------------------------
(* The command line: related-paper mode and topic mode                      *)

\* related-paper mode
RelatedMinYear == 2000
RelatedMaxNeighbors == 100
RelatedNeed == 2
RelatedMaxFetch == 300
RelatedStep == 50

\* topic mode
TopicNeed == 4
TopicFirstFetch == 40
TopicMaxFetch == 100
TopicStep == 20

\* args.paper_id
AnchorId == "P"

\* The records the collaborators answer with in related-paper mode: two
\* papers with a valid title (one without a year), one whose title is a
\* URL-like artifact, and the anchor itself
RelPapers ==
    { Paper("A", TitleOk, 2023, 10, 80),
      Paper("B", TitleOk, NoYear, 0, 20),
      Paper("C", TitleUrl, 2023, 1, 50),
      Paper(AnchorId, TitleOk, 2023, 1, 100) }

\* The records a topic search answers with: an old, little-cited paper, a
\* recent, much-cited one, two in between (one without a year), and an
\* artifact
TopicPapers ==
    { Paper("A", TitleOk, 1999, 1, 0),
      Paper("B", TitleOk, 2023, 10, 0),
      Paper("D", TitleOk, 2015, 5, 0),
      Paper("E", TitleOk, NoYear, 3, 0),
      Paper("C", TitleUrl, 2023, 10, 0) }

\* The responses to a topic search: at most MaxTopicResults records, no
\* paper twice
TopicResponses ==
    { r \in SingleResponses(TopicPapers, MaxTopicResults) :
        \A i, j \in 1..Len(r.items) :
           i # j => r.items[i].paperId # r.items[j].paperId }

\* the identifiers --exclude-ids may name among the model's papers, and
\* how many identifiers of other papers it may hold besides
ExcludableIds == {"A", "B"}
ExcludeOthers == {0, 8, 297}

\* len(exclude_ids)
ExcludeLen(ids, other) == Cardinality(ids) + other

\* `fetch_count = max(10, 2 + len(exclude_ids)) if exclude_ids else 10`
RelatedFirstFetch(ids, other) ==
    IF ExcludeLen(ids, other) > 0
    THEN Max(FirstFetchCount, 2 + ExcludeLen(ids, other))
    ELSE FirstFetchCount

\* the while conditions
RelatedLoopOn(valid, fc) == Len(valid) < RelatedNeed /\ fc <= RelatedMaxFetch
TopicLoopOn(valid, fc) == Len(valid) < TopicNeed /\ fc <= TopicMaxFetch

\* `if len(valid_papers) < 2 and fetch_count <= max_fetch`, a wrong bound
RelatedFetchMoreAtMax(valid, fc) ==
    Len(valid) < RelatedNeed /\ fc <= RelatedMaxFetch

\* `if len(valid_papers) < 2 and fetch_count < max_fetch`
RelatedFetchMore(valid, fc) ==
    Len(valid) < RelatedNeed /\ fc < RelatedMaxFetch

\* `fetch_count = min(fetch_count + 50, max_fetch)`
RelatedNextFetch(fc) == Min(fc + RelatedStep, RelatedMaxFetch)

\* the accumulation loop without its `pid in seen_ids` test
RECURSIVE AccumulateUnseen(_, _, _)
AccumulateUnseen(acc, seen, lst) ==
    IF lst = <<>> THEN [acc |-> acc, seen |-> seen]
    ELSE LET p == Head(lst).paper
         IN  IF p.paperId = NoId
             THEN AccumulateUnseen(acc, seen, Tail(lst))
             ELSE AccumulateUnseen(Append(acc, p), seen \cup {p.paperId},
                                   Tail(lst))

\* the loop that accumulates and deduplicates across attempts; of a ranked
\* record it keeps the paper's own fields, which is all the loop reads
RECURSIVE AccumulateFrom(_, _, _)
AccumulateFrom(acc, seen, lst) ==
    IF lst = <<>> THEN [acc |-> acc, seen |-> seen]
    ELSE LET p == Head(lst).paper
         IN  IF p.paperId = NoId \/ p.paperId \in seen
             THEN AccumulateFrom(acc, seen, Tail(lst))
             ELSE AccumulateFrom(Append(acc, p), seen \cup {p.paperId},
                                 Tail(lst))

\* `[p for p in ... if is_valid_paper(p)]`
KeepValid(lst) == SelectSeq(lst, LAMBDA p : is_valid_paper(p))

\* `if exclude_ids: valid_papers = [p ... if p.get('paperId') not in exclude_ids]`
DropExcluded(lst, ids) == SelectSeq(lst, LAMBDA p : p.paperId \notin ids)

\* one entry of the "papers" of the JSON output
OutputPaper(p) ==
    [title |-> p.title, year |-> p.year, citations |-> p.citationCount,
     paperId |-> p.paperId]

\* argument parsing up to the first test of the while condition
CliInit ==
    /\ mode \in {"topic", "related"}
    /\ cli_pc = "loop"
    /\ IF mode = "related"
       THEN /\ exclude_ids \in SUBSET ExcludableIds
            /\ exclude_other \in ExcludeOthers
            /\ fetch_count = RelatedFirstFetch(exclude_ids, exclude_other)
            /\ seen_ids = exclude_ids \cup {AnchorId}
       ELSE /\ exclude_ids = {}
            /\ exclude_other = 0
            /\ fetch_count = TopicFirstFetch
            /\ seen_ids = {}
    /\ fetches = <<>>
    /\ valid_papers = <<>>
    /\ accumulated = <<>>
    /\ emitted = <<>>
    /\ attempts = 0
    /\ related_papers = <<>>
    /\ RankIdle
    /\ ValidIdle
    /\ FetchIdle

\* what get_paper_references / get_paper_citations can return when the
\* service holds at most n records of S
NeighborReturns(S, n, limit) ==
    { get_paper_references(pages, limit).data : pages \in NeighborPages(S, n) }

\* what search_top_papers can return when the service answers with at most
\* n records of S
SearchReturns(S, n) ==
    { search_top_papers(r) : r \in SingleResponses(S, n) }

\* what the search returns in a ranking call whose neighbour lists are
\* refsGot and citsGot: the search is called only when they admit nothing
RelatedSearchReturns(refsGot, citsGot) ==
    IF NeedsFallback(ScanNeighbors(<<>>, refsGot \o citsGot, RelatedMinYear))
    THEN SearchReturns(RelPapers, 1)
    ELSE {PyList(<<>>)}

\* one iteration of the related-paper loop
RelatedAttempt ==
    /\ mode = "related" /\ cli_pc = "loop"
    /\ RelatedLoopOn(valid_papers, fetch_count)
    /\ fetches' = Append(fetches, fetch_count)
    /\ attempts' = attempts + 1
    /\ \E refsGot \in NeighborReturns(RelPapers, MaxRelFetched,
                                      RelatedMaxNeighbors) :
       \E citsGot \in NeighborReturns(RelPapers, MaxRelFetched - Len(refsGot),
                                      RelatedMaxNeighbors) :
       \E searchGot \in RelatedSearchReturns(refsGot, citsGot) :
       \E r \in { find_top_papers_for_paper(
                     [paperId |-> AnchorId], RelatedMinYear, 0, fetch_count,
                     refsGot, citsGot, <<>>, searchGot) } :
       \E a \in { AccumulateFrom(accumulated, seen_ids, r.result) } :
       \E valid \in { DropExcluded(KeepValid(a.acc), exclude_ids) } :
          IF r.outcome = "raised"
          THEN /\ cli_pc' = "crashed"
               /\ UNCHANGED <<accumulated, seen_ids, valid_papers, fetch_count,
                              related_papers>>
          ELSE /\ related_papers' = [i \in 1..Len(r.result) |->
                                        r.result[i].paper]
               /\ accumulated' = a.acc
               /\ seen_ids' = a.seen
               /\ valid_papers' = valid
               /\ IF RelatedFetchMore(valid, fetch_count)
                  THEN /\ fetch_count' = RelatedNextFetch(fetch_count)
                       /\ cli_pc' = "loop"
                  ELSE /\ fetch_count' = fetch_count
                       /\ cli_pc' = "emit"
    /\ UNCHANGED <<mode, exclude_ids, exclude_other, emitted>>

\* one iteration of the topic loop; iterating over None raises TypeError
TopicFetch ==
    /\ mode = "topic" /\ cli_pc = "loop"
    /\ TopicLoopOn(valid_papers, fetch_count)
    /\ fetches' = Append(fetches, fetch_count)
    /\ \E sr \in TopicResponses :
         LET got == search_top_papers(sr)
             valid == KeepValid(got.data)
         IN  IF got.none
             THEN /\ cli_pc' = "crashed"
                  /\ UNCHANGED <<valid_papers, fetch_count>>
             ELSE /\ valid_papers' = valid
                  /\ IF Len(valid) < TopicNeed
                     THEN /\ fetch_count' = fetch_count + TopicStep
                          /\ cli_pc' = "loop"
                     ELSE /\ fetch_count' = fetch_count
                          /\ cli_pc' = "emit"
    /\ UNCHANGED <<mode, exclude_ids, exclude_other, accumulated, seen_ids,
                   emitted, attempts, related_papers>>

\* the while condition is false
LoopExit ==
    /\ cli_pc = "loop"
    /\ \/ mode = "related" /\ ~RelatedLoopOn(valid_papers, fetch_count)
       \/ mode = "topic" /\ ~TopicLoopOn(valid_papers, fetch_count)
    /\ cli_pc' = "emit"
    /\ UNCHANGED <<mode, exclude_ids, exclude_other, fetch_count, fetches,
                   valid_papers, accumulated, seen_ids, emitted, attempts,
                   related_papers>>

\* the JSON output: valid_papers[:2] or valid_papers[:4]
Emit ==
    /\ cli_pc = "emit"
    /\ LET top == Take(valid_papers,
                       IF mode = "related" THEN RelatedNeed ELSE TopicNeed)
       IN  emitted' = [i \in 1..Len(top) |-> OutputPaper(top[i])]
    /\ cli_pc' = "done"
    /\ UNCHANGED <<mode, exclude_ids, exclude_other, fetch_count, fetches,
                   valid_papers, accumulated, seen_ids, attempts,
                   related_papers>>

CliNext ==
    \/ (RelatedAttempt /\ UNCHANGED <<rankVars, validVars, fetchVars>>)
    \/ (TopicFetch /\ UNCHANGED <<rankVars, validVars, fetchVars>>)
    \/ (LoopExit /\ UNCHANGED <<rankVars, validVars, fetchVars>>)
    \/ (Emit /\ UNCHANGED <<rankVars, validVars, fetchVars>>)

SpecCli == CliInit /\ [][CliNext]_vars

\* the loops run to their end when every enabled step is eventually taken
SpecCliFair == SpecCli /\ WF_vars(CliNext)

\* Every run of the command line ends: it emits its output or it is
\* aborted by an uncaught exception
CliTerminates == <>(cli_pc \in {"done", "crashed"})

-----------------------------------------------------------------------------
(* Properties of the command-line loops                                     *)

StrictlyIncreasing(seq) ==
    \A i, j \in 1..Len(seq) : i < j => seq[i] < seq[j]

ExpDecay5(age) ==
    LET t == <<100, 82, 67, 55, 45, 37, 30, 25, 20, 17, 14, 11, 9, 7, 6, 5, 4,
               3, 3, 2, 2, 1, 1, 1, 1, 1, 1>>
    IN  IF age + 1 <= Len(t) THEN t[age + 1] ELSE 0

\* The topic-seeding score 0.3 * recency + 0.2 * citationCount / maxCites
\* + 0.5 * relevance / maxRelevance, times 10000 * maxCites; a missing year
\* counts as 2000, and the search results carry no relevance score, so the
\* relevance of each is 1.0
TopicScore(year, cites, maxCites) ==
    30 * ExpDecay5(CurrentYear - (IF year = NoYear THEN 2000 ELSE year))
       * maxCites
    + 20 * 100 * cites
    + 50 * 100 * maxCites

\* C10: the papers topic mode emits are in non-increasing order of their
\* weighted score, and no valid search result left out scores higher than
\* an emitted one.
C10_TopicOrder ==
    (mode = "topic" /\ cli_pc = "done" /\ valid_papers # <<>>) =>
       LET maxCites == Highest({ valid_papers[i].citationCount :
                                   i \in 1..Len(valid_papers) })
           Weighted(o) == TopicScore(o.year, o.citations, maxCites)
       IN  /\ \A i, j \in 1..Len(emitted) :
                 i < j => Weighted(emitted[i]) >= Weighted(emitted[j])
           /\ \A i \in 1..Len(emitted) : \A k \in 1..Len(valid_papers) :
                 OutputPaper(valid_papers[k])
                    \notin { emitted[j] : j \in 1..Len(emitted) }
                 => Weighted(emitted[i]) >= Weighted(OutputPaper(valid_papers[k]))

\* C12: in related-paper mode the accumulated list never holds two records
\* of one identifier, and the emitted papers are at most 2, none of them the
\* anchor and none of them named in --exclude-ids.
C12_RelatedExclusion ==
    mode = "related" =>
       /\ UniqueIds(accumulated)
       /\ Len(emitted) <= 2
       /\ \A i \in 1..Len(emitted) :
             /\ emitted[i].paperId # AnchorId
             /\ emitted[i].paperId \notin exclude_ids

\* C12 witness: papers were emitted after several attempts, the last of
\* which returned the anchor itself together with an excluded paper
C12_Witness ==
    /\ mode = "related" /\ cli_pc = "done"
    /\ emitted # <<>>
    /\ attempts >= 2
    /\ AnchorId \in IdsOf(related_papers)
    /\ exclude_ids \cap IdsOf(related_papers) # {}

\* C13: in related-paper mode, whatever the size of --exclude-ids, at least
\* one ranking attempt has been made when the result is emitted.
C13_AlwaysTries ==
    (mode = "related" /\ cli_pc \in {"emit", "done"}) => attempts >= 1

-----------------------------------------------------------------------------
(* get_paper_references / get_paper_citations, a step per page request      *)

\* the largest `limit` a fetcher is called with
MaxLimit == 3
\* the most records one page holds
MaxPageItems == 2

\* the citedPaper / citingPaper of the items of a page: a paper, or {} for
\* an item whose paper is null
PageRecords == { Paper("A", TitleOk, 2023, 10, 80), EmptyPaper }

\* The responses to one page request: the request or the decoding of its
\* payload raises, a status with an empty payload, or a 200 page with or
\* without a `next` offset
PageResponses ==
    {Exc}
    \cup { Http(s, <<>>, FALSE) : s \in Statuses }
    \cup { Http(200, l, n) : l \in ListsUpTo(PageRecords, MaxPageItems),
                             n \in BOOLEAN }

\* the iteration runs to `params["offset"] = nxt` whatever the page holds
PageContinuesOnEmpty(r) == r.status = 200 /\ r.next

\* the iteration reaches no break: status 200, `items` not empty, `nxt` set
PageContinues(r) == r.status = 200 /\ r.items # <<>> /\ r.next

\* a call with any limit from 1 to MaxLimit
FetchInit ==
    /\ fetcher \in {"references", "citations"}
    /\ fetch_limit \in 1..MaxLimit
    /\ fetched = <<>> /\ requests = 0 /\ fetch_pages = <<>> /\ grew = <<>>
    /\ fetch_pc = "loop" /\ fetch_ret = <<>>
    /\ RankIdle
    /\ ValidIdle
    /\ CliIdle

\* one iteration of `while len(refs) < limit`: one page request
FetchPage ==
    /\ fetch_pc = "loop"
    /\ Len(fetched) < fetch_limit
    /\ requests' = requests + 1
    /\ \E r \in PageResponses :
         /\ fetch_pages' = Append(fetch_pages, r)
         /\ IF r.kind = "exception"
            THEN /\ fetch_ret' = <<>>
                 /\ fetch_pc' = "done"
                 /\ UNCHANGED <<fetched, grew>>
            ELSE LET more == IF r.status = 200
                             THEN Take(fetched \o r.items, fetch_limit)
                             ELSE fetched
                 IN  /\ fetched' = more
                     /\ IF PageContinues(r)
                        THEN /\ grew' = Append(grew, Len(more) - Len(fetched))
                             /\ fetch_pc' = "loop"
                        ELSE /\ grew' = grew
                             /\ fetch_pc' = "return"
                     /\ UNCHANGED fetch_ret
    /\ UNCHANGED <<fetcher, fetch_limit>>

\* the while condition is false
FetchLoopEnd ==
    /\ fetch_pc = "loop"
    /\ Len(fetched) >= fetch_limit
    /\ fetch_pc' = "return"
    /\ UNCHANGED <<fetcher, fetch_limit, fetched, requests, fetch_pages, grew,
                   fetch_ret>>

\* `if refs: return refs[:limit]`; else r.raise_for_status() raises or not
\* and [] is returned
FetchReturn ==
    /\ fetch_pc = "return"
    /\ fetch_ret' = IF fetched # <<>> THEN Take(fetched, fetch_limit) ELSE <<>>
    /\ fetch_pc' = "done"
    /\ UNCHANGED <<fetcher, fetch_limit, fetched, requests, fetch_pages, grew>>

FetchNext ==
    \/ (FetchPage /\ UNCHANGED <<rankVars, validVars, cliVars>>)
    \/ (FetchLoopEnd /\ UNCHANGED <<rankVars, validVars, cliVars>>)
    \/ (FetchReturn /\ UNCHANGED <<rankVars, validVars, cliVars>>)

SpecFetch == FetchInit /\ [][FetchNext]_vars

\* The step-by-step fetcher returns what the function of its page responses
\* returns
FetchAgrees ==
    fetch_pc = "done" =>
       fetch_ret = (IF fetcher = "references"
                    THEN get_paper_references(fetch_pages, fetch_limit)
                    ELSE get_paper_citations(fetch_pages, fetch_limit)).data

\* C11: for a limit >= 1 and any page responses, a fetcher makes at most
\* `limit` page requests, holds and returns at most `limit` records, and
\* every iteration that did not exit added at least one record.
C11_PaginationBound ==
    fetcher # "idle" =>
       /\ requests <= fetch_limit
       /\ Len(fetched) <= fetch_limit
       /\ \A i \in 1..Len(grew) : grew[i] >= 1
       /\ fetch_pc = "done" => Len(fetch_ret) <= fetch_limit

\* C11 witness: a server that answered every request with a one-record page
\* and a `next` offset; the fetcher stopped after `limit` requests with
\* `limit` records
C11_Witness ==
    /\ fetch_pc = "done"
    /\ fetch_limit >= 3
    /\ requests = fetch_limit
    /\ \A i \in 1..Len(fetch_pages) :
          fetch_pages[i].next /\ Len(fetch_pages[i].items) = 1
    /\ Len(fetch_ret) = fetch_limit

=============================================================================
